---- MODULE Spec2Model ----
(***************************************************************************)
(* Model of the update-state store (StateMixin in                          *)
(* pyrogram/storage/sqlite_storage.py) and of the gap-recovery loop        *)
(* (Recover.recover_updates in pyrogram/methods/utilities/recover.py).     *)
(*                                                                         *)
(* Two specifications share the variables:                                 *)
(*   Spec       one invocation of recover_updates against a scripted       *)
(*              (nondeterministic) server, starting from a stored table;   *)
(*   SpecStore  arbitrary sequences of get_state / update_state /          *)
(*              reset_state calls on the table created by create().        *)
(***************************************************************************)
EXTENDS Integers, Sequences, FiniteSets, TLC

\* ------------------------------------------------------------------ bounds
MaxPts == 1         \* pts values are 0..MaxPts
MaxVal == 1         \* date, qts and seq values, and the clock, are 0..MaxVal
MaxLen == 2         \* a response carries at most MaxLen new messages
MaxQueries == 3     \* GetDifference calls issued by one invocation
MaxBatch == 2       \* records in one update_peers list

\* Python's None (an SQL NULL in the table), outside every value range.
None == -1

\* pts_count of every recovered UpdateNewMessage.
PtsCount == -1

\* State.default: the pts of the synthesized default.
DefaultPts == 1

\* reset_state: the pts a reset row gets.
ResetPts == 1

\* The scope recover_updates works on.
MeScope == 0

\* GetDifference arguments that are literals in the code.
QueryQts == 0
PtsTotalLimit == 1000000

Pts == 0..MaxPts
Vals == 0..MaxVal
OptVals == Vals \cup {None}          \* a date argument: given or omitted
Counters == {None, MaxVal}          \* a qts or seq argument: unset or set
Scopes == {MeScope, MeScope + 1}    \* the account-wide scope and one other

VARIABLES
    table,                      \* the rows of the SQL table "state"
    now,                        \* int(time.time())
    call,                       \* SpecStore: the last store call, its arguments and time
    ret,                        \* SpecStore: what the last store call returned
    pc,                         \* recover_updates: position in the code
    state,                      \* recover_updates: local `state`
    local_pts, local_date, local_seq,
    prev_pts,
    message_updates_counter, other_updates_counter,
    diff,                       \* the response being handled (last one received)
    updates_queue,              \* dispatcher.updates_queue
    queries,                    \* history: the GetDifference calls issued
    received,                   \* history: how each GetDifference call ended
    writes,                     \* history: the update_state calls of the invocation
    outcome,                    \* how the invocation ended
    logged,                     \* the counters written by the final log.info
    peers,                      \* the rows of the SQL table "peers"
    pcall,                      \* SpecPeers: the last peer call and its arguments
    pret                        \* SpecPeers: what the last peer lookup returned or raised

engineVars == <<pc, state, local_pts, local_date, local_seq, prev_pts,
                message_updates_counter, other_updates_counter, diff,
                updates_queue, queries, received, writes, outcome, logged>>
peerVars == <<peers, pcall, pret>>
vars == <<table, now, call, ret, pc, state, local_pts, local_date, local_seq,
          prev_pts, message_updates_counter, other_updates_counter, diff,
          updates_queue, queries, received, writes, outcome, logged,
          peers, pcall, pret>>

\* ------------------------------------------------------------ Cursor Store

\* class State / one row of the table: (id, pts, date, qts, seq).
State(id, pts, date, qts, seq) ==
    [id |-> id, pts |-> pts, date |-> date, qts |-> qts, seq |-> seq]

\* Mutant of StateDefault: the default cursor starts at pts 0.
StateDefaultZero(id, t) == State(id, 0, t, None, None)

\* State.default(id): cls(id, 1, int(time.time()), None, None).
StateDefault(id, t) == State(id, DefaultPts, t, None, None)

\* SELECT id, pts, date, qts, seq FROM state WHERE id = ?
SelectById(tbl, id) == {r \in tbl : r.id = id}

\* Mutant of get_state: the row is read in two statements, pts and date
\* first, and the second finds no row: qts and seq come from the default.
get_state_torn(tbl, id, t) ==
    IF SelectById(tbl, id) = {}
    THEN StateDefault(id, t)
    ELSE LET r == CHOOSE q \in SelectById(tbl, id) : TRUE
         IN  State(r.id, r.pts, r.date, None, None)

\* get_state: the row when there is one, the default otherwise.
get_state(tbl, id, t) ==
    IF SelectById(tbl, id) = {}
    THEN StateDefault(id, t)
    ELSE CHOOSE r \in SelectById(tbl, id) : TRUE

\* Mutant of update_state: an omitted qts or seq keeps the value of the old row.
update_state_merge(tbl, id, pts, date, qts, seq, t) ==
    LET d == IF date = None THEN t ELSE date
        old == SelectById(tbl, id)
        keep(new, field) ==
            IF new = None /\ old # {}
            THEN (CHOOSE r \in old : TRUE)[field]
            ELSE new
    IN  (tbl \ old) \cup {State(id, pts, d, keep(qts, "qts"), keep(seq, "seq"))}

\* update_state: `date is None` is replaced by the clock, then
\* REPLACE INTO state (id, pts, date, qts, seq): the row of the same primary
\* key is deleted and the new one inserted.
update_state(tbl, id, pts, date, qts, seq, t) ==
    LET d == IF date = None THEN t ELSE date
    IN  (tbl \ SelectById(tbl, id)) \cup {State(id, pts, d, qts, seq)}

\* Mutant of reset_state: the row is reset to the whole default, not only its pts.
reset_state_clear(tbl, id) ==
    {IF r.id = id THEN State(r.id, ResetPts, r.date, None, None) ELSE r : r \in tbl}

\* reset_state: UPDATE state SET pts = 1 WHERE id = ?
reset_state(tbl, id) ==
    {IF r.id = id THEN [r EXCEPT !.pts = ResetPts] ELSE r : r \in tbl}


\* What a call that returns nothing (or no call yet) leaves in `ret`.
NoState == State(None, None, None, None, None)

\* A store call: the operation, its arguments as the caller gave them (None
\* for those it does not take or leaves out) and the time of the call.
Call(op, id, pts, date, qts, seq, t) ==
    [op |-> op, id |-> id, pts |-> pts, date |-> date, qts |-> qts, seq |-> seq,
     at |-> t]

NoCall == Call("none", None, None, None, None, None, None)

EngineIdle ==
    UNCHANGED engineVars

PeersIdle ==
    UNCHANGED peerVars

\* A caller reads the cursor of a scope.
GetStateCall(id) ==
    /\ call' = Call("get_state", id, None, None, None, None, now)
    /\ ret' = get_state(table, id, now)
    /\ UNCHANGED <<table, now>>
    /\ EngineIdle
    /\ PeersIdle

\* A caller writes the cursor of a scope; date = None stands for an omitted date.
UpdateStateCall(id, pts, date, qts, seq) ==
    /\ call' = Call("update_state", id, pts, date, qts, seq, now)
    /\ table' = update_state(table, id, pts, date, qts, seq, now)
    /\ ret' = NoState
    /\ UNCHANGED now
    /\ EngineIdle
    /\ PeersIdle

\* A maintenance caller resets the cursor of a scope.
ResetStateCall(id) ==
    /\ call' = Call("reset_state", id, None, None, None, None, now)
    /\ table' = reset_state(table, id)
    /\ ret' = NoState
    /\ UNCHANGED now
    /\ EngineIdle
    /\ PeersIdle

\* time.time() advances.
Tick ==
    /\ now < MaxVal
    /\ now' = now + 1
    /\ UNCHANGED <<table, call, ret>>
    /\ EngineIdle
    /\ PeersIdle


\* ------------------------------------------------------ Peer Directory Cache

USERNAME_TTL == 8 * 60 * 60

Hour == 60 * 60

\* The readings of the wall clock the peer calls are made at, in seconds:
\* they lie 1, 8 and 9 hours apart.
Instants == {0, Hour, 9 * Hour}

Abs(x) == IF x < 0 THEN 0 - x ELSE x

PeerIds == {1, 2}
Usernames == {1}                    \* one username, held by any number of rows
PhoneNumbers == {1}                 \* one phone number, likewise

\* One tuple of the list update_peers is given:
\* (id, access_hash, type, username, phone_number).
PeerRecord(id, access_hash, type, username, phone_number) ==
    [id |-> id, access_hash |-> access_hash, type |-> type,
     username |-> username, phone_number |-> phone_number]

\* The records callers write: every branch of get_input_peer and a type it
\* does not know, usernames and phone numbers present and absent (each shared
\* by rows of both ids), two access hashes.
PeerRecords ==
    { PeerRecord(1, 1, "user", 1, 1),
      PeerRecord(1, 2, "supergroup", None, None),
      PeerRecord(1, 1, "martian", 1, 1),
      PeerRecord(2, 2, "group", 1, None),
      PeerRecord(2, 1, "bot", 1, 1),
      PeerRecord(2, 2, "channel", None, 1) }

\* The lists update_peers is given: up to MaxBatch records, ids may repeat.
RECURSIVE PeerLists(_)
PeerLists(n) ==
    IF n = 0 THEN {<<>>}
    ELSE PeerLists(n - 1) \cup
         {Append(l, r) : l \in {m \in PeerLists(n - 1) : Len(m) = n - 1}, r \in PeerRecords}

\* A row of the table peers: the record and the column last_update_on.
PeerRow(rec, t) ==
    [id |-> rec.id, access_hash |-> rec.access_hash, type |-> rec.type,
     username |-> rec.username, phone_number |-> rec.phone_number,
     last_update_on |-> t]

\* Mutant of replace_into_peers: an upsert that keeps the old username and
\* phone number where the new record has none.
replace_into_peers_coalesce(tbl, rec, t) ==
    LET old == {r \in tbl : r.id = rec.id}
        keep(field) ==
            IF rec[field] = None /\ old # {}
            THEN (CHOOSE r \in old : TRUE)[field]
            ELSE rec[field]
    IN  (tbl \ old) \cup
        {PeerRow(PeerRecord(rec.id, rec.access_hash, rec.type,
                            keep("username"), keep("phone_number")), t)}

\* REPLACE INTO peers (id, access_hash, type, username, phone_number): the row
\* of the same primary key is deleted and the new one inserted; the column
\* last_update_on, not listed, takes its DEFAULT, the clock in seconds.
replace_into_peers(tbl, rec, t) ==
    {r \in tbl : r.id # rec.id} \cup {PeerRow(rec, t)}

\* update_peers: executemany runs the statement for each record in turn.
RECURSIVE update_peers(_, _, _)
update_peers(tbl, records, t) ==
    IF records = <<>> THEN tbl
    ELSE update_peers(replace_into_peers(tbl, Head(records), t), Tail(records), t)

\* What a lookup returns or raises, as one record shape.
PeerResult(kind, id, access_hash, msg) ==
    [kind |-> kind, id |-> id, access_hash |-> access_hash, msg |-> msg]

InputPeerUser(user_id, access_hash) ==
    PeerResult("InputPeerUser", user_id, access_hash, "")

InputPeerChat(chat_id) ==
    PeerResult("InputPeerChat", chat_id, None, "")

InputPeerChannel(channel_id, access_hash) ==
    PeerResult("InputPeerChannel", channel_id, access_hash, "")

KeyError(msg) == PeerResult("KeyError", None, None, msg)

ValueError(msg) == PeerResult("ValueError", None, None, msg)

NoPeer == PeerResult("none", None, None, "")

\* utils.get_channel_id: the channel id is a fixed offset minus the peer id.
MAX_CHANNEL_ID == -1000000000

get_channel_id(peer_id) == MAX_CHANNEL_ID - peer_id

\* Mutant of get_input_peer: a type it does not know is taken for a user.
get_input_peer_default(peer_id, access_hash, peer_type) ==
    IF peer_type = "group"
    THEN InputPeerChat(0 - peer_id)
    ELSE IF peer_type \in {"channel", "supergroup"}
    THEN InputPeerChannel(get_channel_id(peer_id), access_hash)
    ELSE InputPeerUser(peer_id, access_hash)

get_input_peer(peer_id, access_hash, peer_type) ==
    IF peer_type \in {"user", "bot"}
    THEN InputPeerUser(peer_id, access_hash)
    ELSE IF peer_type = "group"
    THEN InputPeerChat(0 - peer_id)
    ELSE IF peer_type \in {"channel", "supergroup"}
    THEN InputPeerChannel(get_channel_id(peer_id), access_hash)
    ELSE ValueError("Invalid peer type")

\* The lookups give the set of outcomes the call can have: fetchone() takes
\* the first row of the result, and SQL leaves the order of rows open where
\* the statement does not fix it.

\* get_peer_by_id: SELECT ... WHERE id = ?
get_peer_by_id(tbl, peer_id) ==
    LET rows == {r \in tbl : r.id = peer_id}
    IN  IF rows = {}
        THEN {KeyError("ID not found")}
        ELSE {get_input_peer(r.id, r.access_hash, r.type) : r \in rows}

\* Mutant of get_peer_by_username: rows expire at the TTL, not after it.
get_peer_by_username_sharp(tbl, username, t) ==
    LET rows == {r \in tbl : r.username = username}
        first == {r \in rows : \A q \in rows : q.last_update_on <= r.last_update_on}
    IN  IF rows = {}
        THEN {KeyError("Username not found")}
        ELSE {IF Abs(t - r.last_update_on) >= USERNAME_TTL
              THEN KeyError("Username expired")
              ELSE get_input_peer(r.id, r.access_hash, r.type) : r \in first}

\* get_peer_by_username: SELECT ... WHERE username = ? ORDER BY last_update_on
\* DESC, then the TTL test on the first row.
get_peer_by_username(tbl, username, t) ==
    LET rows == {r \in tbl : r.username = username}
        first == {r \in rows : \A q \in rows : q.last_update_on <= r.last_update_on}
    IN  IF rows = {}
        THEN {KeyError("Username not found")}
        ELSE {IF Abs(t - r.last_update_on) > USERNAME_TTL
              THEN KeyError("Username expired")
              ELSE get_input_peer(r.id, r.access_hash, r.type) : r \in first}

\* get_peer_by_phone_number: SELECT ... WHERE phone_number = ?
get_peer_by_phone_number(tbl, phone_number) ==
    LET rows == {r \in tbl : r.phone_number = phone_number}
    IN  IF rows = {}
        THEN {KeyError("Phone number not found")}
        ELSE {get_input_peer(r.id, r.access_hash, r.type) : r \in rows}

\* A peer call: the operation, the key of a lookup (None for update_peers),
\* the list of update_peers (empty for a lookup) and the time of the call.
PeerCall(op, key, records, t) ==
    [op |-> op, key |-> key, records |-> records, at |-> t]

NoPeerCall == PeerCall("none", None, <<>>, None)

CursorIdle ==
    /\ UNCHANGED <<table, call, ret>>
    /\ EngineIdle

UpdatePeersCall(records) ==
    /\ pcall' = PeerCall("update_peers", None, records, now)
    /\ peers' = update_peers(peers, records, now)
    /\ pret' = NoPeer
    /\ UNCHANGED now
    /\ CursorIdle

GetPeerByIdCall(peer_id) ==
    /\ pcall' = PeerCall("get_peer_by_id", peer_id, <<>>, now)
    /\ pret' \in get_peer_by_id(peers, peer_id)
    /\ UNCHANGED <<peers, now>>
    /\ CursorIdle

GetPeerByUsernameCall(username) ==
    /\ pcall' = PeerCall("get_peer_by_username", username, <<>>, now)
    /\ pret' \in get_peer_by_username(peers, username, now)
    /\ UNCHANGED <<peers, now>>
    /\ CursorIdle

GetPeerByPhoneNumberCall(phone_number) ==
    /\ pcall' = PeerCall("get_peer_by_phone_number", phone_number, <<>>, now)
    /\ pret' \in get_peer_by_phone_number(peers, phone_number)
    /\ UNCHANGED <<peers, now>>
    /\ CursorIdle

\* The wall clock is read at another instant: it runs on, or is set back.
ClockSet(t) ==
    /\ t # now
    /\ now' = t
    /\ UNCHANGED peerVars
    /\ CursorIdle

\* The table after construction: no rows.
PeersInit ==
    /\ peers = {}
    /\ pcall = NoPeerCall
    /\ pret = NoPeer


\* --------------------------------------------------------- Recovery Engine

\* The server's answers to GetDifference, as one record shape; the fields a
\* shape does not have are None / empty.
Response(kind, pts, date, seq, new_messages, users, chats) ==
    [kind |-> kind, pts |-> pts, date |-> date, seq |-> seq,
     new_messages |-> new_messages, users |-> users, chats |-> chats]

DifferenceEmpty(date, seq) ==
    Response("Empty", None, date, seq, <<>>, <<>>, <<>>)

DifferenceTooLong(pts) ==
    Response("TooLong", pts, None, None, <<>>, <<>>, <<>>)

\* Difference: pts, date, seq are those of its `state`.
Difference(pts, date, seq, new_messages, users, chats) ==
    Response("Full", pts, date, seq, new_messages, users, chats)

\* DifferenceSlice: pts, date, seq are those of its `intermediate_state`.
DifferenceSlice(pts, date, seq, new_messages, users, chats) ==
    Response("Slice", pts, date, seq, new_messages, users, chats)

NoDiff == Response("None", None, None, None, <<>>, <<>>, <<>>)

\* The new_messages lists the k-th answer may carry: n <= MaxLen messages,
\* <<k, i>> being the i-th message of the k-th answer.
MessageLists(k) == {[i \in 1..n |-> <<k, i>>] : n \in 0..MaxLen}

\* The users / chats lists the server may send with a response.
Entities ==
    { [users |-> <<>>, chats |-> <<>>],
      [users |-> <<[id |-> 1, name |-> "u1"]>>,
       chats |-> <<[id |-> 2, name |-> "c2"]>>] }

\* GetDifference(pts=local_pts, date=local_date, qts=0, pts_total_limit=1000000)
GetDifference(pts, date) ==
    [pts |-> pts, date |-> date, qts |-> QueryQts, pts_total_limit |-> PtsTotalLimit]

\* {x.id: x for x in list}: a later element of the same id replaces an earlier one.
DictById(list) ==
    [i \in {list[k].id : k \in DOMAIN list} |->
        list[CHOOSE k \in DOMAIN list :
                /\ list[k].id = i
                /\ \A j \in DOMAIN list : list[j].id = i => j <= k]]

\* Mutant of UpdateNewMessage: the event counts as one pts step.
UpdateNewMessageCounted(message, pts) ==
    [message |-> message, pts |-> pts, pts_count |-> 1]

\* UpdateNewMessage(message=message, pts=local_pts, pts_count=-1)
UpdateNewMessage(message, pts) ==
    [message |-> message, pts |-> pts, pts_count |-> PtsCount]

\* Mutant of put_nowait: the item goes to the front of the queue.
put_nowait_front(queue, item) == <<item>> \o queue

\* updates_queue.put_nowait(item)
put_nowait(queue, item) == Append(queue, item)

\* Mutant of PutMessages: only the first message of a response is enqueued.
PutMessagesFirst(queue, new_messages, pts, users, chats) ==
    IF new_messages = <<>>
    THEN queue
    ELSE put_nowait(queue, <<UpdateNewMessage(Head(new_messages), pts), users, chats>>)

\* for message in diff.new_messages: put_nowait((UpdateNewMessage(...), users, chats))
RECURSIVE PutMessages(_, _, _, _, _)
PutMessages(queue, new_messages, pts, users, chats) ==
    IF new_messages = <<>>
    THEN queue
    ELSE PutMessages(
            put_nowait(queue, <<UpdateNewMessage(Head(new_messages), pts), users, chats>>),
            Tail(new_messages), pts, users, chats)

\* Mutant of Stuck: the progress check never fires.
StuckNever(prev, pts) == FALSE

\* if prev_pts == local_pts: break
Stuck(prev, pts) == prev = pts

\* Mutant of EmptyCursor: the working date and seq are written back.
EmptyCursorStale(st, pts, date, seq, d) == State(st.id, pts, date, None, seq)

\* Lines 48-53: update_state(id=state.id, pts=local_pts, date=diff.date, seq=diff.seq);
\* qts is left to its default, None.
EmptyCursor(st, pts, date, seq, d) == State(st.id, pts, d.date, None, d.seq)

\* Lines 57-62: update_state(id=state.id, pts=diff.pts, date=local_date, seq=local_seq)
TooLongCursor(st, pts, date, seq, d) == State(st.id, d.pts, date, None, seq)

\* What the history keeps of a response: the fields events are built from.
Received(d) ==
    [kind |-> d.kind, pts |-> d.pts, new_messages |-> d.new_messages,
     users |-> d.users, chats |-> d.chats]

\* What the history keeps of a call that raised.
Raised == [kind |-> "Error", pts |-> None, new_messages |-> <<>>,
           users |-> <<>>, chats |-> <<>>]

StoreIdle == UNCHANGED <<call, ret>> /\ PeersIdle

\* Lines 19-30: read the cursor of scope 0 and set up the locals.
Start ==
    /\ pc = "start"
    /\ state' = get_state(table, MeScope, now)
    /\ local_pts' = state'.pts
    /\ local_date' = state'.date
    /\ local_seq' = state'.seq
    /\ message_updates_counter' = 0
    /\ other_updates_counter' = 0
    /\ prev_pts' = 0
    /\ pc' = "query"
    /\ UNCHANGED <<table, now, diff, updates_queue, queries, received, writes,
                   outcome, logged>>
    /\ StoreIdle

\* Lines 34-41: issue GetDifference with the working pts and date, and await it.
Query ==
    /\ pc = "query"
    /\ Len(queries) < MaxQueries
    /\ queries' = Append(queries, GetDifference(local_pts, local_date))
    /\ pc' = "await"
    /\ UNCHANGED <<table, now, state, local_pts, local_date, local_seq, prev_pts,
                   message_updates_counter, other_updates_counter, diff,
                   updates_queue, received, writes, outcome, logged>>
    /\ StoreIdle

\* Mutant of RecvFail: the failed call is retried instead of ending the loop.
RecvFailRetry ==
    /\ pc = "await"
    /\ received' = Append(received, Raised)
    /\ pc' = "query"
    /\ UNCHANGED <<table, now, state, local_pts, local_date, local_seq, prev_pts,
                   message_updates_counter, other_updates_counter, diff,
                   updates_queue, queries, writes, outcome, logged>>
    /\ StoreIdle

\* Lines 43-45: the call raised; log.exception and break.
RecvFail ==
    /\ pc = "await"
    /\ received' = Append(received, Raised)
    /\ outcome' = "Aborted"
    /\ pc' = "log"
    /\ UNCHANGED <<table, now, state, local_pts, local_date, local_seq, prev_pts,
                   message_updates_counter, other_updates_counter, diff,
                   updates_queue, queries, writes, logged>>
    /\ StoreIdle

\* Lines 47-54: DifferenceEmpty.
RecvEmpty(date, seq) ==
    /\ pc = "await"
    /\ diff' = DifferenceEmpty(date, seq)
    /\ received' = Append(received, Received(diff'))
    /\ LET c == EmptyCursor(state, local_pts, local_date, local_seq, diff')
       IN  /\ table' = update_state(table, c.id, c.pts, c.date, c.qts, c.seq, now)
           /\ writes' = Append(writes, c)
    /\ outcome' = "Done"
    /\ pc' = "log"
    /\ UNCHANGED <<now, state, local_pts, local_date, local_seq, prev_pts,
                   message_updates_counter, other_updates_counter,
                   updates_queue, queries, logged>>
    /\ StoreIdle

\* Mutant of RecvTooLong: the working pts adopts the server's pts.
RecvTooLongAdopt(pts) ==
    /\ pc = "await"
    /\ diff' = DifferenceTooLong(pts)
    /\ received' = Append(received, Received(diff'))
    /\ LET c == TooLongCursor(state, local_pts, local_date, local_seq, diff')
       IN  /\ table' = update_state(table, c.id, c.pts, c.date, c.qts, c.seq, now)
           /\ writes' = Append(writes, c)
    /\ local_pts' = diff'.pts
    /\ pc' = "query"
    /\ UNCHANGED <<now, state, local_date, local_seq, prev_pts,
                   message_updates_counter, other_updates_counter,
                   updates_queue, queries, outcome, logged>>
    /\ StoreIdle

\* Lines 56-63: DifferenceTooLong.
RecvTooLong(pts) ==
    /\ pc = "await"
    /\ diff' = DifferenceTooLong(pts)
    /\ received' = Append(received, Received(diff'))
    /\ LET c == TooLongCursor(state, local_pts, local_date, local_seq, diff')
       IN  /\ table' = update_state(table, c.id, c.pts, c.date, c.qts, c.seq, now)
           /\ writes' = Append(writes, c)
    /\ pc' = "query"
    /\ UNCHANGED <<now, state, local_pts, local_date, local_seq, prev_pts,
                   message_updates_counter, other_updates_counter,
                   updates_queue, queries, outcome, logged>>
    /\ StoreIdle

\* Mutant of RecvFull: the new working cursor is written back to the store.
RecvFullPersist(pts, date, seq, new_messages, ent) ==
    /\ pc = "await"
    /\ diff' = Difference(pts, date, seq, new_messages, ent.users, ent.chats)
    /\ received' = Append(received, Received(diff'))
    /\ local_pts' = diff'.pts
    /\ local_date' = diff'.date
    /\ local_seq' = diff'.seq
    /\ LET c == State(state.id, local_pts', local_date', None, local_seq')
       IN  /\ table' = update_state(table, c.id, c.pts, c.date, c.qts, c.seq, now)
           /\ writes' = Append(writes, c)
    /\ updates_queue' = PutMessages(updates_queue, diff'.new_messages, local_pts',
                                    DictById(diff'.users), DictById(diff'.chats))
    /\ message_updates_counter' = message_updates_counter + Len(diff'.new_messages)
    /\ pc' = "query"
    /\ UNCHANGED <<now, state, prev_pts, other_updates_counter,
                   queries, outcome, logged>>
    /\ StoreIdle

\* Lines 65-68 and 81-96: Difference.
RecvFull(pts, date, seq, new_messages, ent) ==
    /\ pc = "await"
    /\ diff' = Difference(pts, date, seq, new_messages, ent.users, ent.chats)
    /\ received' = Append(received, Received(diff'))
    /\ local_pts' = diff'.pts
    /\ local_date' = diff'.date
    /\ local_seq' = diff'.seq
    /\ updates_queue' = PutMessages(updates_queue, diff'.new_messages, local_pts',
                                    DictById(diff'.users), DictById(diff'.chats))
    /\ message_updates_counter' = message_updates_counter + Len(diff'.new_messages)
    /\ pc' = "query"
    /\ UNCHANGED <<table, now, state, prev_pts, other_updates_counter,
                   queries, writes, outcome, logged>>
    /\ StoreIdle

\* Mutant of RecvSlice: the intermediate cursor is written to the store.
RecvSlicePersist(pts, date, seq, new_messages, ent) ==
    /\ pc = "await"
    /\ diff' = DifferenceSlice(pts, date, seq, new_messages, ent.users, ent.chats)
    /\ received' = Append(received, Received(diff'))
    /\ local_pts' = diff'.pts
    /\ local_date' = diff'.date
    /\ local_seq' = diff'.seq
    /\ LET c == State(state.id, local_pts', local_date', None, local_seq')
       IN  /\ table' = update_state(table, c.id, c.pts, c.date, c.qts, c.seq, now)
           /\ writes' = Append(writes, c)
    /\ IF Stuck(prev_pts, local_pts')
       THEN /\ outcome' = "StuckTerminal"
            /\ pc' = "log"
            /\ UNCHANGED <<prev_pts, updates_queue, message_updates_counter>>
       ELSE /\ prev_pts' = local_pts'
            /\ updates_queue' = PutMessages(updates_queue, diff'.new_messages, local_pts',
                                            DictById(diff'.users), DictById(diff'.chats))
            /\ message_updates_counter' =
                    message_updates_counter + Len(diff'.new_messages)
            /\ pc' = "query"
            /\ UNCHANGED outcome
    /\ UNCHANGED <<now, state, other_updates_counter, queries, logged>>
    /\ StoreIdle

\* Lines 70-78 and 81-96: DifferenceSlice.
RecvSlice(pts, date, seq, new_messages, ent) ==
    /\ pc = "await"
    /\ diff' = DifferenceSlice(pts, date, seq, new_messages, ent.users, ent.chats)
    /\ received' = Append(received, Received(diff'))
    /\ local_pts' = diff'.pts
    /\ local_date' = diff'.date
    /\ local_seq' = diff'.seq
    /\ IF Stuck(prev_pts, local_pts')
       THEN /\ outcome' = "StuckTerminal"
            /\ pc' = "log"
            /\ UNCHANGED <<prev_pts, updates_queue, message_updates_counter>>
       ELSE /\ prev_pts' = local_pts'
            /\ updates_queue' = PutMessages(updates_queue, diff'.new_messages, local_pts',
                                            DictById(diff'.users), DictById(diff'.chats))
            /\ message_updates_counter' =
                    message_updates_counter + Len(diff'.new_messages)
            /\ pc' = "query"
            /\ UNCHANGED outcome
    /\ UNCHANGED <<table, now, state, other_updates_counter, queries, writes, logged>>
    /\ StoreIdle

\* Line 98: the final log.info, then the coroutine returns.
Log ==
    /\ pc = "log"
    /\ logged' = <<message_updates_counter, other_updates_counter>>
    /\ pc' = "returned"
    /\ UNCHANGED <<table, now, state, local_pts, local_date, local_seq, prev_pts,
                   message_updates_counter, other_updates_counter, diff,
                   updates_queue, queries, received, writes, outcome>>
    /\ StoreIdle

\* ---------------------------------------------------------- specifications

EngineInit ==
    /\ pc = "start"
    /\ state = NoState
    /\ local_pts = None
    /\ local_date = None
    /\ local_seq = None
    /\ prev_pts = None
    /\ message_updates_counter = None
    /\ other_updates_counter = None
    /\ diff = NoDiff
    /\ updates_queue = <<>>
    /\ queries = <<>>
    /\ received = <<>>
    /\ writes = <<>>
    /\ outcome = "running"
    /\ logged = <<>>

\* Tables recover_updates may find: the empty table create() leaves, and
\* tables earlier update_state calls left.
StoredTables ==
    { {},
      {State(MeScope, 0, 0, MaxVal, MaxVal),
       State(MeScope + 1, MaxPts, 0, None, None)} }

Init ==
    /\ table \in StoredTables
    /\ now \in Vals
    /\ call = NoCall
    /\ ret = NoState
    /\ EngineInit
    /\ PeersInit

Next ==
    \/ Start
    \/ Query
    \/ RecvFail
    \/ \E date \in Vals, seq \in Vals : RecvEmpty(date, seq)
    \/ \E pts \in Pts : RecvTooLong(pts)
    \/ \E pts \in Pts, date \in Vals, seq \in Vals,
          new_messages \in MessageLists(Len(received) + 1), ent \in Entities :
            RecvFull(pts, date, seq, new_messages, ent)
    \/ \E pts \in Pts, date \in Vals, seq \in Vals,
          new_messages \in MessageLists(Len(received) + 1), ent \in Entities :
            RecvSlice(pts, date, seq, new_messages, ent)
    \/ Log

Spec == Init /\ [][Next]_vars

\* The table after construction (create_or_exists_table_state): no rows.
InitStore ==
    /\ table = {}
    /\ now = 0
    /\ call = NoCall
    /\ ret = NoState
    /\ EngineInit
    /\ PeersInit

NextStore ==
    \/ \E id \in Scopes : GetStateCall(id)
    \/ \E id \in Scopes, pts \in Pts, date \in OptVals, qts \in Counters, seq \in Counters :
            UpdateStateCall(id, pts, date, qts, seq)
    \/ \E id \in Scopes : ResetStateCall(id)
    \/ Tick

SpecStore == InitStore /\ [][NextStore]_vars

NextPeers ==
    \/ \E records \in PeerLists(MaxBatch) : UpdatePeersCall(records)
    \/ \E peer_id \in PeerIds : GetPeerByIdCall(peer_id)
    \/ \E username \in Usernames : GetPeerByUsernameCall(username)
    \/ \E phone_number \in PhoneNumbers : GetPeerByPhoneNumberCall(phone_number)
    \/ \E t \in Instants : ClockSet(t)

SpecPeers == InitStore /\ [][NextPeers]_vars

\* recover_updates with other tasks of the same event loop calling the store
\* for scope 0, a second recover_updates among them. The store methods are
\* plain functions without an await, so each call runs whole; another task
\* runs only while recover_updates is suspended: at the await of line 34 and
\* after it returned (the calls made before it starts decide the table it
\* finds, one of StoredTables).
Suspended == pc \in {"await", "returned"}

OtherTask ==
    /\ Suspended
    /\ \/ GetStateCall(MeScope)
       \/ \E pts \in Pts, qts \in Counters :
              UpdateStateCall(MeScope, pts, None, qts, None)
       \/ ResetStateCall(MeScope)

\* A response without messages, users and chats.
NoEntities == [users |-> <<>>, chats |-> <<>>]

NextConc ==
    \/ Start
    \/ Query
    \/ RecvFail
    \/ RecvEmpty(MaxVal, MaxVal)
    \/ \E pts \in Pts : RecvTooLong(pts)
    \/ \E pts \in Pts : RecvFull(pts, MaxVal, MaxVal, <<>>, NoEntities)
    \/ \E pts \in Pts : RecvSlice(pts, MaxVal, MaxVal, <<>>, NoEntities)
    \/ Log
    \/ OtherTask

SpecConc == Init /\ [][NextConc]_vars

\* ------------------------------------------------- vocabulary of the claims

Last(seq) == seq[Len(seq)]

\* This step is the completion of a GetDifference call (a response or an error).
Answered == Len(received') = Len(received) + 1

\* This step is the arrival of a response of the given shape.
Arrived(kind) == Answered /\ Last(received').kind = kind

Terminal == pc \in {"log", "returned"}

\* The rows the table holds for the account-wide scope.
Cursor0(tbl) == SelectById(tbl, MeScope)

\* The table is written only by the update_state calls the history lists.
OnlyListedWrites == writes' = writes => table' = table

\* The users / chats mapping of a response, for lists without repeated ids.
ById(list) ==
    [i \in {list[k].id : k \in DOMAIN list} |->
        CHOOSE x \in {list[k] : k \in DOMAIN list} : x.id = i]

\* The events one response calls for: one per message, in order.
EventsOf(r) ==
    [i \in 1..Len(r.new_messages) |->
        <<[message |-> r.new_messages[i], pts |-> r.pts, pts_count |-> -1],
          ById(r.users), ById(r.chats)>>]

Kinds(h) == [i \in 1..Len(h) |-> h[i].kind]

\* ---------------------------------------------------------------------- C1
\* C1: a Slice whose intermediate pts equals prev_pts ends the invocation on
\* that response, with no cursor write and no event of that response; after
\* [Slice(p), Slice(p)], p # 0, the store was never written and the queue holds
\* exactly the events of the first Slice.
RepeatedSlice ==
    /\ Len(received) = 2
    /\ Kinds(received) = <<"Slice", "Slice">>
    /\ received[1].pts = received[2].pts
    /\ received[1].pts # 0

C1_StuckSliceEndsWithoutEffect ==
    [][ /\ (Arrived("Slice") /\ diff'.pts = prev_pts) =>
            /\ outcome' = "StuckTerminal"
            /\ pc' = "log"
            /\ table' = table
            /\ writes' = writes
            /\ updates_queue' = updates_queue
            /\ queries' = queries
        /\ OnlyListedWrites
        /\ RepeatedSlice' =>
            /\ Terminal'
            /\ outcome' = "StuckTerminal"
            /\ writes' = <<>>
            /\ updates_queue' = EventsOf(received'[1])
      ]_vars

C1_Witness ==
    /\ RepeatedSlice
    /\ pc = "returned"
    /\ received[1].new_messages # <<>>
    /\ received[2].new_messages # <<>>
    /\ Len(updates_queue) = Len(received[1].new_messages)


\* ---------------------------------------------------------------------- C2
\* C2: an Empty response makes the invocation persist, for scope 0, the working
\* pts (which the response leaves as it was) with the response's date and seq,
\* and end in Done with no further query; after [Full(P, [m1, m2]), Empty(D, S)]
\* two events tagged pts = P are queued and the stored cursor is (P, D, S).
FullThenEmpty ==
    /\ Kinds(received) = <<"Full", "Empty">>
    /\ Len(received[1].new_messages) = 2

StoredCursorIs(tbl, pts, date, seq) ==
    /\ Cardinality(Cursor0(tbl)) = 1
    /\ \A r \in Cursor0(tbl) : r.pts = pts /\ r.date = date /\ r.seq = seq

C2_EmptyPersistsAndEnds ==
    [][ /\ Arrived("Empty") =>
            /\ local_pts' = local_pts
            /\ StoredCursorIs(table', local_pts, diff'.date, diff'.seq)
            /\ \A r \in table' : r.id # MeScope => r \in table
            /\ \A r \in table : r.id # MeScope => r \in table'
            /\ outcome' = "Done"
            /\ pc' = "log"
        /\ outcome = "Done" => queries' = queries /\ received' = received
        /\ FullThenEmpty' =>
            /\ Len(updates_queue') = 2
            /\ \A i \in 1..2 : updates_queue'[i][1].pts = received'[1].pts
            /\ StoredCursorIs(table', received'[1].pts, diff'.date, diff'.seq)
            /\ outcome' = "Done"
      ]_vars

C2_Witness ==
    /\ FullThenEmpty
    /\ pc = "returned"
    /\ outcome = "Done"
    /\ received[1].pts # state.pts
    /\ diff.date # state.date
    /\ Len(updates_queue) = 2

\* ---------------------------------------------------------------------- C3
\* C3: TooLong(N) makes the invocation persist, for scope 0, pts = N with the
\* working date and seq, stay in the loop, and issue the very next query with
\* the working pts and date of before the response (not N).
C3_TooLongPersistsButQueriesOldPts ==
    [][ /\ Arrived("TooLong") =>
            /\ StoredCursorIs(table', diff'.pts, local_date, local_seq)
            /\ pc' = "query"
            /\ outcome' = "running"
        /\ (pc' = "await" /\ diff'.kind = "TooLong") =>
            /\ Len(queries') >= 2
            /\ Last(queries') = queries'[Len(queries') - 1]
      ]_vars

C3_Witness ==
    /\ pc = "await"
    /\ diff.kind = "TooLong"
    /\ diff.pts # Last(queries).pts
    /\ StoredCursorIs(table, diff.pts, local_date, local_seq)

\* ---------------------------------------------------------------------- C4
\* C4: a GetDifference call that raises ends the invocation at once: no cursor
\* write, no event, no further query, nothing raised to the caller, and the
\* events of earlier responses stay queued.
C4_FailureAborts ==
    [][ /\ Arrived("Error") =>
            /\ outcome' = "Aborted"
            /\ pc' = "log"
            /\ table' = table
            /\ writes' = writes
            /\ updates_queue' = updates_queue
            /\ queries' = queries
        /\ (\E i \in 1..Len(received) : received[i].kind = "Error") =>
            /\ outcome = "Aborted"
            /\ pc' \in {"log", "returned"}
            /\ table' = table
            /\ writes' = writes
            /\ updates_queue' = updates_queue
            /\ queries' = queries
            /\ received' = received
            /\ outcome' = "Aborted"
      ]_vars

C4_Witness ==
    /\ Len(received) = 3
    /\ Last(received).kind = "Error"
    /\ pc = "returned"
    /\ outcome = "Aborted"
    /\ updates_queue # <<>>

\* ---------------------------------------------------------------------- C5
\* C5 as stated: after every response, of any of the four shapes, a cursor for
\* scope 0 is written before the next query or the return.
C5_WriteAfterEveryResponse ==
    [][ (Answered /\ Last(received').kind # "Error") =>
            /\ Len(writes') = Len(writes) + 1
            /\ Last(writes').id = MeScope
      ]_vars

\* C5 as amended: a cursor for scope 0 is written after each Empty response
\* (working pts, the response's date and seq) and each TooLong response (the
\* response's pts, working date and seq); a Full or a Slice response changes
\* only the working cursor and writes nothing.
C5_WriteAfterEmptyAndTooLongOnly ==
    [][ /\ Arrived("Empty") =>
            /\ writes' = Append(writes, State(MeScope, local_pts, diff'.date, None, diff'.seq))
            /\ Last(writes') \in table'
        /\ Arrived("TooLong") =>
            /\ writes' = Append(writes, State(MeScope, diff'.pts, local_date, None, local_seq))
            /\ Last(writes') \in table'
        /\ (Arrived("Full") \/ Arrived("Slice")) =>
            /\ writes' = writes
            /\ table' = table
            /\ <<local_pts', local_date', local_seq'>> = <<diff'.pts, diff'.date, diff'.seq>>
        /\ OnlyListedWrites
      ]_vars

C5_Witness ==
    /\ Kinds(received) = <<"Full", "Slice", "TooLong">>
    /\ pc = "query"
    /\ Len(writes) = 1
    /\ local_pts # state.pts
    /\ Last(writes).pts # local_pts

\* ---------------------------------------------------------------------- C6
\* C6: the events queued by one invocation are, in order, the messages of the
\* processed Full and Slice responses (those that reached the message loop),
\* response after response and each list in its own order; calls are issued one
\* at a time, the next only after the previous one was answered.
ReachedLoop(i) ==
    /\ received[i].kind \in {"Full", "Slice"}
    /\ ~(i = Len(received) /\ outcome = "StuckTerminal")

RECURSIVE MessagesUpTo(_)
MessagesUpTo(n) ==
    IF n = 0 THEN <<>>
    ELSE MessagesUpTo(n - 1) \o (IF ReachedLoop(n) THEN received[n].new_messages ELSE <<>>)

C6_EventsInResponseOrder ==
    /\ [i \in 1..Len(updates_queue) |-> updates_queue[i][1].message]
            = MessagesUpTo(Len(received))
    /\ Len(queries) - Len(received) = (IF pc = "await" THEN 1 ELSE 0)

C6_Witness ==
    /\ Kinds(received) = <<"Slice", "TooLong", "Full">>
    /\ Len(received[1].new_messages) = 2
    /\ Len(received[3].new_messages) = 2
    /\ Len(updates_queue) = 4

\* ---------------------------------------------------------------------- C7
RECURSIVE EventsUpTo(_, _)
EventsUpTo(Calls(_), n) ==
    IF n = 0 THEN <<>>
    ELSE EventsUpTo(Calls, n - 1) \o (IF Calls(n) THEN EventsOf(received[n]) ELSE <<>>)

FullOrSlice(i) == received[i].kind \in {"Full", "Slice"}

\* C7 as stated: the queue holds one event per message of every Full and every
\* Slice response, each with the pts of its own response, pts_count = -1 and the
\* users / chats maps of its own response.
C7_EventPerMessageOfEveryResponse ==
    updates_queue = EventsUpTo(FullOrSlice, Len(received))

\* C7 as amended: the same, except that a Slice whose pts equals prev_pts (the
\* one that ends the invocation in StuckTerminal) contributes no event.
C7_EventPerMessageOfEveryLoopedResponse ==
    updates_queue = EventsUpTo(ReachedLoop, Len(received))

C7_Witness ==
    /\ outcome = "StuckTerminal"
    /\ Len(received) = 3
    /\ Last(received).new_messages # <<>>
    /\ Len(updates_queue) >= 2
    /\ \E i, j \in 1..Len(updates_queue) :
            /\ updates_queue[i][2] # updates_queue[j][2]
            /\ updates_queue[i][1].pts # updates_queue[j][1].pts

\* ---------------------------------------------------------------------- C8
\* C8: get_state of a scope without a row returns (id, pts = 1, date = the
\* current time, qts and seq unset); get_state always returns a cursor and never
\* creates or changes a row, so a scope stays absent, and its reads stay the
\* default, until update_state is called for it.
GetStep == call'.op = "get_state" /\ now' = now

C9_UpdateThenGetRoundTrip ==
    [][ (call'.op = "update_state" /\ call'.date # None) =>
            /\ get_state(table', call'.id, now') =
                    State(call'.id, call'.pts, call'.date, call'.qts, call'.seq)
            /\ Cardinality(SelectById(table', call'.id)) = 1
            /\ \A o \in Scopes \ {call'.id} : SelectById(table', o) = SelectById(table, o)
      ]_vars

C9_Witness ==
    /\ call.op = "update_state"
    /\ call.date # None
    /\ call.qts = None
    /\ call.seq = None
    /\ \E r \in SelectById(table, call.id) : r.qts = None /\ r.seq = None /\ r.pts = 0
    /\ \E r \in table : r.id # call.id /\ r.qts # None /\ r.seq # None

\* --------------------------------------------------------------------- C10
\* C10: reset_state of a scope with a row sets that row's pts to 1 and leaves
\* its date, qts and seq, and every other row, as they were; a second
\* reset_state changes nothing more.
C10_ResetChangesOnlyPts ==
    [][ \A id \in Scopes :
            ResetStateCall(id) =>
                /\ \A r \in table : r.id = id => [r EXCEPT !.pts = 1] \in table'
                /\ \A r \in table : r.id # id => r \in table'
                /\ Cardinality(table') = Cardinality(table)
                /\ reset_state(table', id) = table'
                /\ (call.op = "reset_state" /\ call.id = id) => table' = table
      ]_vars

C10_Witness ==
    /\ call.op = "reset_state"
    /\ \E r \in SelectById(table, call.id) :
            r.pts = 1 /\ r.date = 0 /\ r.qts # None /\ r.seq # None
    /\ \E r \in table : r.id # call.id /\ r.pts # 1
    /\ now > 0


\* ------------------------------------------------ Peer Directory Cache claims

RowsOf(tbl, id) == {r \in tbl : r.id = id}

\* The record at position i is the last one of the list with its id.
LastOfItsId(records, i) ==
    \A j \in (i + 1)..Len(records) : records[j].id # records[i].id

\* C11: the table peers never holds two rows of one id; an update_peers call
\* leaves, for every id in its list, exactly the last record of the list
\* with that id, all five fields as given and last_update_on the time of the
\* call, and leaves the rows of every other id as they were; no other call
\* changes the table. By induction the row of an id is the last record
\* written for it, whatever the sequence of calls.
C11_LastRecordWins ==
    [][ IF pcall'.op # "update_peers"
        THEN peers' = peers
        ELSE /\ \A i \in 1..Len(pcall'.records) :
                  LastOfItsId(pcall'.records, i) =>
                    RowsOf(peers', pcall'.records[i].id) =
                      { [id |-> pcall'.records[i].id,
                         access_hash |-> pcall'.records[i].access_hash,
                         type |-> pcall'.records[i].type,
                         username |-> pcall'.records[i].username,
                         phone_number |-> pcall'.records[i].phone_number,
                         last_update_on |-> pcall'.at] }
             /\ \A id \in PeerIds :
                  (\A i \in 1..Len(pcall'.records) : pcall'.records[i].id # id) =>
                    /\ RowsOf(peers', id) = RowsOf(peers, id)
                    /\ Cardinality(RowsOf(peers, id)) <= 1
      ]_vars

\* A list wrote one id twice, first with a username and a phone number and
\* last without them, at a time after the row was first written: the row
\* holds neither.
C11_Witness ==
    /\ pcall.op = "update_peers"
    /\ Len(pcall.records) = 2
    /\ pcall.records[1].id = pcall.records[2].id
    /\ pcall.records[1].username # None
    /\ pcall.records[1].phone_number # None
    /\ pcall.records[2].username = None
    /\ pcall.records[2].phone_number = None
    /\ pcall.at = Hour
    /\ \E r \in peers :
          /\ r.id = pcall.records[2].id
          /\ r.username = None
          /\ r.phone_number = None
          /\ r.access_hash = pcall.records[2].access_hash
          /\ r.last_update_on = Hour
    /\ Cardinality(peers) = 2

\* The rows holding the username, and those of them written last.
WithUsername(tbl, username) == {r \in tbl : r.username = username}

Newest(rows) == {r \in rows : \A q \in rows : q.last_update_on <= r.last_update_on}

\* C12: get_peer_by_username fails with not-found when no row has the
\* username; otherwise it looks at a row with the greatest last_update_on
\* among those having it, fails with expired when the time of the call and
\* that last_update_on lie more than 8 hours apart, in either direction, and
\* gives the peer reference get_input_peer builds from that row otherwise
\* (for a row whose type it does not know that is its invalid-type error).
C12_UsernameNewestWithinTtl ==
    pcall.op = "get_peer_by_username" =>
        IF WithUsername(peers, pcall.key) = {}
        THEN pret = KeyError("Username not found")
        ELSE \E r \in Newest(WithUsername(peers, pcall.key)) :
                IF \/ pcall.at - r.last_update_on > 8 * Hour
                   \/ r.last_update_on - pcall.at > 8 * Hour
                THEN pret = KeyError("Username expired")
                ELSE pret = get_input_peer(r.id, r.access_hash, r.type)

\* Two rows share the username, written at 0 and one hour later; the lookup,
\* 9 hours after the first and exactly 8 hours after the second, resolves to
\* the second.
C12_Witness ==
    /\ pcall.op = "get_peer_by_username"
    /\ pcall.at = 9 * Hour
    /\ Cardinality(WithUsername(peers, pcall.key)) = 2
    /\ \E old \in peers, new \in peers :
          /\ old.username = pcall.key
          /\ new.username = pcall.key
          /\ old.last_update_on = 0
          /\ new.last_update_on = Hour
          /\ pret.kind = "InputPeerChat"
          /\ pret.id = 0 - new.id
          /\ old.type = "user"

\* The kinds of peer a row can be of.
Kinds5 == {"user", "bot", "group", "channel", "supergroup"}

References == {"InputPeerUser", "InputPeerChat", "InputPeerChannel"}

\* The rows a lookup by id or by phone number selects from.
Selected(tbl, c) ==
    IF c.op = "get_peer_by_id"
    THEN {r \in tbl : r.id = c.key}
    ELSE {r \in tbl : r.phone_number = c.key}

\* C13: a lookup by id or by phone number raises its not-found error exactly
\* when no row has the key; when a row has it, the outcome is that of one
\* such row, whatever its last_update_on: a peer reference carrying the
\* row's access hash for a row of a known kind, the invalid-type error for
\* any other; and a lookup that fails leaves the table as it was.
C13_IdAndPhoneLookups ==
    [][ /\ pcall'.op \in {"get_peer_by_id", "get_peer_by_phone_number"} =>
              /\ (pret'.kind = "KeyError") <=> (Selected(peers, pcall') = {})
              /\ Selected(peers, pcall') # {} =>
                    \E r \in Selected(peers, pcall') :
                        IF r.type \in Kinds5
                        THEN /\ pret'.kind \in References
                             /\ pret'.kind # "InputPeerChat" => pret'.access_hash = r.access_hash
                             /\ pret'.kind = "InputPeerUser" => pret'.id = r.id
                        ELSE pret' = ValueError("Invalid peer type")
        /\ pret'.kind \in {"KeyError", "ValueError"} => peers' = peers
      ]_vars

\* A lookup by phone number, 9 hours after the only row with the number was
\* written, succeeds; the other row of the table has another number or none.
C13_Witness ==
    /\ pcall.op = "get_peer_by_phone_number"
    /\ pcall.at = 9 * Hour
    /\ pret.kind = "InputPeerChannel"
    /\ \E r \in peers, q \in peers :
          /\ r.phone_number = pcall.key
          /\ r.last_update_on = 0
          /\ q.phone_number # pcall.key
          /\ q.last_update_on = 0


\* ------------------------------------------------------- concurrency claims

\* The row an update_state call writes: its arguments, an omitted date
\* replaced by the time of the call.
RowOfCall(c) ==
    [id |-> c.id, pts |-> c.pts,
     date |-> IF c.date = None THEN c.at ELSE c.date,
     qts |-> c.qts, seq |-> c.seq]

\* A step of recover_updates (every one moves pc), a step of another task.
EngineStep == pc' # pc

OtherStep == pc' = pc /\ call' # NoCall

\* What a get_state of scope 0 may return on this step: the whole row the
\* table holds before the step, or the default when it holds none.
WholeRowRead(got) ==
    IF Cursor0(table) = {}
    THEN got = [id |-> MeScope, pts |-> DefaultPts, date |-> now, qts |-> None, seq |-> None]
    ELSE got \in Cursor0(table)

\* C14: with the store calls of recover_updates and of other tasks
\* interleaved in any order, every row of scope 0 the table ever holds is a
\* row it held before the step, or the one row a single update_state call of
\* this step wrote (all four fields from that call), or a row it held with
\* its pts reset; and every get_state, of another task or of recover_updates,
\* returns the whole row the table holds at that moment. By induction a read
\* never returns fields of two different writes.
C14_ReadsSeeWholeRows ==
    [][ /\ EngineStep =>
              /\ \A r \in Cursor0(table') :
                    r \in Cursor0(table) \/ (Len(writes') = Len(writes) + 1 /\ r = Last(writes'))
              /\ pc = "start" => WholeRowRead(state')
        /\ OtherStep =>
              /\ \A r \in Cursor0(table') :
                    \/ r \in Cursor0(table)
                    \/ call'.op = "update_state" /\ r = RowOfCall(call')
                    \/ call'.op = "reset_state" /\
                          \E q \in Cursor0(table) : r = [q EXCEPT !.pts = ResetPts]
              /\ call'.op = "get_state" => WholeRowRead(ret')
              /\ Cardinality(Cursor0(table')) <= 1
      ]_vars

\* While recover_updates awaits its second answer, after its own TooLong
\* write, another task has written scope 0 with a qts and a task reads that
\* row back, whole: not the row recover_updates read, not the one it wrote.
C14_Witness ==
    /\ pc = "await"
    /\ Len(writes) = 1
    /\ call.op = "get_state"
    /\ ret.qts = MaxVal
    /\ ret.seq = None
    /\ ret # state
    /\ ret # Last(writes)
    /\ Cursor0(table) = {ret}
    /\ state.qts = MaxVal


\* ---------------------------------------------------- Recovery Engine claims

\* The server never supplied a pts below the pts of the query it answered.
ServerNeverBehind ==
    \A i \in 1..Len(received) :
        received[i].pts # None => received[i].pts >= queries[i].pts

\* This step is an update_state call of the invocation.
CursorWrite == Len(writes') = Len(writes) + 1

\* C15: with a server that never supplies a pts below the pts it was queried
\* with, no cursor write of the invocation leaves scope 0 with a pts smaller
\* than the pts stored before that write.
C15_StoredPtsNeverDecreases ==
    [][ (CursorWrite /\ ServerNeverBehind') =>
            \A old \in Cursor0(table), new \in Cursor0(table') : new.pts >= old.pts
      ]_vars

\* C16: from the moment the counters are set up, the message counter is the
\* number of events the invocation has put on the queue and the other-updates
\* counter is 0; the final log statement, reached from each of Done, Aborted
\* and StuckTerminal, reports exactly these two numbers.
C16_CountersMatchQueue ==
    /\ pc # "start" =>
          /\ message_updates_counter = Len(updates_queue)
          /\ other_updates_counter = 0
    /\ pc = "returned" =>
          /\ outcome \in {"Done", "Aborted", "StuckTerminal"}
          /\ logged = <<Len(updates_queue), 0>>

\* An invocation that enqueued the messages of two responses and then got
\* stuck has logged their number.
C16_Witness ==
    /\ pc = "returned"
    /\ outcome = "StuckTerminal"
    /\ Len(received) = 3
    /\ Len(received[1].new_messages) = MaxLen
    /\ Len(received[2].new_messages) = 1
    /\ Len(received[3].new_messages) = 1
    /\ Len(updates_queue) = MaxLen + 1
    /\ logged = <<MaxLen + 1, 0>>

\* C17: the invocation leaves the qts of scope 0 alone: whenever the cursor
\* it read at the start had a qts, the row stored for scope 0 still has that
\* qts.
C17_QtsUntouched ==
    (pc # "start" /\ state.qts # None) =>
        \A r \in Cursor0(table) : r.qts = state.qts

\* The last response is a Slice, and an earlier Slice carried the same pts
\* with no Slice of another pts between the two.
SliceRepeated ==
    \E i \in 1..(Len(received) - 1) :
        /\ received[i].kind = "Slice"
        /\ Last(received).kind = "Slice"
        /\ received[i].pts = Last(received).pts
        /\ \A k \in (i + 1)..(Len(received) - 1) :
              received[k].kind = "Slice" => received[k].pts = Last(received).pts

\* C18: prev_pts is 0 once the invocation has started and changes only when
\* a Slice arrives; the invocation ends in StuckTerminal only when the last
\* response repeats the pts of an earlier Slice, so never on its first Slice.
C18_StuckOnlyAfterRepeatedSlice ==
    [][ /\ pc = "start" => prev_pts' = 0
        /\ (pc # "start" /\ prev_pts' # prev_pts) => Arrived("Slice")
        /\ outcome' = "StuckTerminal" => SliceRepeated'
      ]_vars

\* No TooLong response has been received.
NoTooLong == \A i \in 1..Len(received) : received[i].kind # "TooLong"

\* C20: the table changes only on the arrival of an Empty response, which
\* stores the working pts, or of a TooLong response, which stores the pts it
\* carries; so a Full or Slice response never writes, and an invocation that
\* ends in Aborted or StuckTerminal without a TooLong response has made no
\* write: the table is one Init can start from and scope 0 holds what the
\* invocation read at its start (nothing, when it read the default).
C20_AbortedOrStuckLeavesStore ==
    [][ /\ table' # table => CursorWrite /\ (Arrived("Empty") \/ Arrived("TooLong"))
        /\ (CursorWrite /\ Arrived("Empty")) => Last(writes').pts = local_pts
        /\ (CursorWrite /\ Arrived("TooLong")) => Last(writes').pts = Last(received').pts
        /\ (outcome' \in {"Aborted", "StuckTerminal"} /\ NoTooLong') =>
              /\ writes' = <<>>
              /\ table' \in StoredTables
              /\ Cursor0(table') \subseteq {state'}
              /\ Cursor0(table') = {} => state'.qts = None /\ state'.pts = DefaultPts
      ]_vars

\* An invocation got stuck after a Full and two Slice responses that moved
\* the working pts and enqueued events; the stored cursor is the one it read.
C20_Witness ==
    /\ outcome = "StuckTerminal"
    /\ Kinds(received) = <<"Full", "Slice", "Slice">>
    /\ Len(updates_queue) = 2 * MaxLen
    /\ state.pts = 0
    /\ local_pts = MaxPts
    /\ Cursor0(table) = {state}
    /\ writes = <<>>

\* What the rest of the invocation depends on: the stored cursor and the
\* locals of recover_updates.
LoopState ==
    <<table, state, local_pts, local_date, local_seq, prev_pts, diff,
      message_updates_counter, other_updates_counter, updates_queue>>

\* C19: the invocation cannot re-issue the same query forever, so no answer
\* after which it queries again leaves it exactly where it was before the
\* query: such an answer moves neither the working pts nor anything else,
\* the server can give it again, and the invocation then repeats the query
\* without end.
C19_EveryAnswerMovesTheLoop ==
    [][ (Answered /\ pc' = "query") => LoopState' # LoopState ]_vars
====
